---- MODULE Spec2Model ----
(***************************************************************************)
(* Health Symptom Checker (src/dhyanee.py): the TF-IDF symptom matcher,    *)
(* the substring emergency detector and the "Check Symptoms" handler that  *)
(* normalises the text area, calls both and renders the ranked result.     *)
(*                                                                         *)
(* Python str values are TLA+ strings (Len, SubSeq and \o act on them).    *)
(* Python lists are sequences; the ordered dict DISEASE_DB is a sequence   *)
(* of records in insertion order.  Similarities are float64 in the source  *)
(* and fixed-point thousandths here.                                       *)
(***************************************************************************)
EXTENDS Integers, Sequences, FiniteSets, TLC

VARIABLES
  pc,               \* position in the handler / in match_symptoms
  user_input,       \* the text area's content (line 166)
  user_symptoms,    \* the normalised symptom list (line 176)
  threshold,        \* match_symptoms' threshold argument, in thousandths
  emergencies,      \* detect_emergency's return value (line 179)
  calls,            \* the core functions invoked so far, in call order
  vectorizer,       \* the fitted TfidfVectorizer: token -> idf (thousandths)
  di,               \* index of the disease the outer loop is at (line 85)
  ui,               \* index of the user symptom the inner loop is at (line 88)
  score,            \* line 86
  matched_symptoms, \* line 87
  matched,          \* the dict built at line 96, in insertion order
  results,          \* match_symptoms' return value (line 185)
  sorted_results,   \* line 186
  rendered          \* what the page shows, in order

vars == <<pc, user_input, user_symptoms, threshold, emergencies, calls,
          vectorizer, di, ui, score, matched_symptoms, matched, results,
          sorted_results, rendered>>

(***************************************************************************)
(* Bounds of the model.                                                    *)
(***************************************************************************)
\* the most comma-separated pieces of a raw input, and the longest symptom
\* list handed to the core directly
MaxSymptoms == 2

(***************************************************************************)
(* Static data.                                                            *)
(***************************************************************************)
DISEASE_DB ==
  << [name |-> "Common Cold",
      symptoms |-> <<"sneezing", "runny nose", "stuffy nose", "sore throat",
                     "mild cough", "mild fever">>],
     [name |-> "Influenza (Flu)",
      symptoms |-> <<"fever", "chills", "body aches", "fatigue", "headache",
                     "dry cough", "sore throat">>],
     [name |-> "COVID-19 (possible)",
      symptoms |-> <<"fever", "dry cough", "loss of taste", "loss of smell",
                     "shortness of breath", "fatigue", "sore throat">>],
     [name |-> "Migraine",
      symptoms |-> <<"headache", "throbbing headache", "nausea",
                     "sensitivity to light", "sensitivity to sound">>],
     [name |-> "General Headache",
      symptoms |-> <<"mild headache", "tension headache", "head pain",
                     "stress headache">>],
     [name |-> "Muscle or Body Pain",
      symptoms |-> <<"muscle pain", "body aches", "back pain", "neck pain",
                     "joint pain">>],
     [name |-> "Stomachache",
      symptoms |-> <<"stomach pain", "abdominal pain", "bloating",
                     "indigestion">>],
     [name |-> "Urinary Tract Infection (UTI)",
      symptoms |-> <<"painful urination", "burning urination",
                     "frequent urination", "lower abdominal pain",
                     "cloudy urine">>],
     [name |-> "Gastroenteritis / Food Poisoning",
      symptoms |-> <<"nausea", "vomiting", "diarrhea", "stomach cramps",
                     "fever">>],
     [name |-> "Allergic Rhinitis (Allergy)",
      symptoms |-> <<"sneezing", "itchy eyes", "runny nose", "watery eyes",
                     "nasal congestion">>] >>

EMERGENCY_SYMPTOMS ==
  << "trouble breathing", "shortness of breath", "difficulty breathing",
     "chest pain", "pressure in chest", "sudden confusion",
     "loss of consciousness", "unresponsiveness", "bluish lips", "bluish face",
     "severe bleeding", "severe head injury",
     "sudden severe weakness on one side" >>

\* threshold: float = 0.4, in thousandths
DefaultThreshold == 400

(***************************************************************************)
(* Python str operations.                                                  *)
(***************************************************************************)
Range(f) == {f[i] : i \in DOMAIN f}

CharAt(s, i) == SubSeq(s, i, i)

\* needle in hay
Contains(hay, needle) ==
  \E i \in 1..(Len(hay) - Len(needle) + 1) :
     SubSeq(hay, i, i + Len(needle) - 1) = needle

Whitespace == {" ", "\t", "\n", "\r"}

\* str.strip()
strip(s) ==
  LET idx == {i \in 1..Len(s) : CharAt(s, i) \notin Whitespace}
      lo == CHOOSE i \in idx : \A j \in idx : i <= j
      hi == CHOOSE i \in idx : \A j \in idx : j <= i
  IN  IF idx = {} THEN "" ELSE SubSeq(s, lo, hi)

UpperChars == "ABCDEFGHIJKLMNOPQRSTUVWXYZ"
LowerChars == "abcdefghijklmnopqrstuvwxyz"

LowerChar(c) ==
  LET hit == {i \in 1..Len(UpperChars) : CharAt(UpperChars, i) = c}
  IN  IF hit = {} THEN c ELSE CharAt(LowerChars, CHOOSE i \in hit : TRUE)

\* str.lower()
RECURSIVE lower(_)
lower(s) ==
  IF Len(s) = 0 THEN ""
  ELSE LowerChar(CharAt(s, 1)) \o lower(SubSeq(s, 2, Len(s)))

\* str.split(sep) for a one-character sep: always at least one piece
RECURSIVE split(_, _)
split(s, sep) ==
  LET hit == {i \in 1..Len(s) : CharAt(s, i) = sep}
      k == CHOOSE i \in hit : \A j \in hit : i <= j
  IN  IF hit = {} THEN <<s>>
      ELSE <<SubSeq(s, 1, k - 1)>> \o split(SubSeq(s, k + 1, Len(s)), sep)

\* sep.join(parts)
RECURSIVE join(_, _)
join(parts, sep) ==
  IF Len(parts) = 0 THEN ""
  ELSE IF Len(parts) = 1 THEN parts[1]
  ELSE parts[1] \o sep \o join(Tail(parts), sep)

\* [s.strip().lower() for s in user_input.split(",") if s.strip()]
RECURSIVE NormalizeParts(_)
NormalizeParts(parts) ==
  IF Len(parts) = 0 THEN <<>>
  ELSE (IF strip(parts[1]) # "" THEN <<lower(strip(parts[1]))>> ELSE <<>>)
         \o NormalizeParts(Tail(parts))

Normalize(raw) == NormalizeParts(split(raw, ","))

\* `if not user_input.strip()` : the handler's only validation
InputRejected(raw) == strip(raw) = ""

(***************************************************************************)
(* detect_emergency.                                                       *)
(***************************************************************************)
\* a variant that tests one direction of containment only
EmergencyTriggeredOneWay(s, em) == Contains(s, em)

\* if em in s or s in em
EmergencyTriggered(s, em) == Contains(s, em) \/ Contains(em, s)

\* the inner loop over EMERGENCY_SYMPTOMS for one user symptom
RECURSIVE FoundFor(_, _)
FoundFor(s, k) ==
  IF k > Len(EMERGENCY_SYMPTOMS) THEN <<>>
  ELSE (IF EmergencyTriggered(s, EMERGENCY_SYMPTOMS[k])
          THEN <<EMERGENCY_SYMPTOMS[k]>> ELSE <<>>) \o FoundFor(s, k + 1)

\* the list `found` after both loops
RECURSIVE Found(_)
Found(us) ==
  IF Len(us) = 0 THEN <<>> ELSE FoundFor(us[1], 1) \o Found(Tail(us))

\* every list holding each member of S once: the orders list(set(..)) can
\* produce, since the iteration order of a set of str depends on the hash seed
RECURSIVE Orderings(_)
Orderings(S) ==
  IF S = {} THEN {<<>>}
  ELSE UNION {{<<x>> \o q : q \in Orderings(S \ {x})} : x \in S}

\* a variant that returns `found` as it is, without list(set(..))
detect_emergency_keepdups(us) == {Found(us)}

\* a variant whose result depends on the matcher's threshold
detect_emergency_gated(us) ==
  IF threshold > DefaultThreshold THEN {<<>>}
  ELSE Orderings(Range(Found(us)))

\* the values detect_emergency(us) can return
detect_emergency(us) == Orderings(Range(Found(us)))

(***************************************************************************)
(* TfidfVectorizer (defaults: lowercase, token pattern \b\w\w+\b,          *)
(* smooth idf, l2 norm) and cosine_similarity.                             *)
(***************************************************************************)
WordChars ==
  LET w == "abcdefghijklmnopqrstuvwxyz0123456789_"
  IN  {CharAt(w, i) : i \in 1..Len(w)}

\* a run of word characters is a token when it has at least two of them
RunToken(run) == IF Len(run) >= 2 THEN <<run>> ELSE <<>>

RECURSIVE TokenScan(_, _, _)
TokenScan(s, i, run) ==
  IF i > Len(s) THEN RunToken(run)
  ELSE IF CharAt(s, i) \in WordChars
         THEN TokenScan(s, i + 1, run \o CharAt(s, i))
         ELSE RunToken(run) \o TokenScan(s, i + 1, "")

\* the analyzer: the tokens of a document, in order, repeats kept
Tokenize(doc) == TokenScan(lower(doc), 1, "")

RECURSIVE Flatten(_)
Flatten(ss) == IF Len(ss) = 0 THEN <<>> ELSE Head(ss) \o Flatten(Tail(ss))

\* [s for d in DISEASE_DB.values() for s in d["symptoms"]]
all_known_symptoms ==
  Flatten([d \in 1..Len(DISEASE_DB) |-> DISEASE_DB[d].symptoms])

\* the analysis of the catalog's documents, which never change
KnownAnalysis == [doc \in Range(all_known_symptoms) |-> Tokenize(doc)]

\* the analyzer on any document
Analyze(doc) ==
  IF doc \in DOMAIN KnownAnalysis THEN KnownAnalysis[doc] ELSE Tokenize(doc)

KnownTokens ==
  [i \in 1..Len(all_known_symptoms) |-> Range(Analyze(all_known_symptoms[i]))]

\* round(1000 * ln(m)) for m = 1, 2, ...
Ln1000 ==
  <<    0,  693, 1099, 1386, 1609, 1792, 1946, 2079, 2197, 2303,
     2398, 2485, 2565, 2639, 2708, 2773, 2833, 2890, 2944, 2996,
     3045, 3091, 3135, 3178, 3219, 3258, 3296, 3332, 3367, 3401,
     3434, 3466, 3497, 3526, 3555, 3584, 3611, 3638, 3664, 3689,
     3714, 3738, 3761, 3784, 3807, 3829, 3850, 3871, 3892, 3912,
     3932, 3951, 3970, 3989, 4007, 4025, 4043, 4060, 4078, 4094,
     4111, 4127, 4143, 4159, 4174, 4190, 4205, 4220, 4234, 4248 >>

\* smooth idf, in thousandths: ln((1 + n) / (1 + df)) + 1
Idf(n, df) == Ln1000[n + 1] - Ln1000[df + 1] + 1000

\* TfidfVectorizer().fit(all_known_symptoms + user_symptoms): token -> idf
Fit(us) ==
  LET userTokens == [i \in 1..Len(us) |-> Range(Analyze(us[i]))]
      vocabulary == UNION Range(KnownTokens) \cup UNION Range(userTokens)
      n == Len(all_known_symptoms) + Len(us)
      df(t) == Cardinality({i \in DOMAIN KnownTokens : t \in KnownTokens[i]})
                 + Cardinality({i \in DOMAIN userTokens : t \in userTokens[i]})
  IN  [t \in vocabulary |-> Idf(n, df(t))]

\* vectorizer.transform([doc]) before its l2 normalisation, which the cosine
\* below does not depend on: token -> tf * idf, over the known tokens of doc
Transform(vec, doc) ==
  LET toks == Analyze(doc)
      tf(t) == Cardinality({i \in DOMAIN toks : toks[i] = t})
  IN  [t \in Range(toks) \cap DOMAIN vec |-> tf(t) * vec[t]]

RECURSIVE SumOver(_, _)
SumOver(S, row) ==
  IF S = {} THEN 0
  ELSE LET t == CHOOSE x \in S : TRUE IN row[t] + SumOver(S \ {t}, row)

RECURSIVE SqrtSearch(_, _, _)
SqrtSearch(n, lo, hi) ==
  IF lo >= hi THEN lo
  ELSE LET mid == (lo + hi + 1) \div 2
       IN  IF mid * mid <= n THEN SqrtSearch(n, mid, hi)
           ELSE SqrtSearch(n, lo, mid - 1)

\* floor of the square root
ISqrt(n) == SqrtSearch(n, 0, 46340)

\* the l2 norm of a row
Norm(row) == ISqrt(SumOver(DOMAIN row, [t \in DOMAIN row |-> row[t] * row[t]]))

\* cosine_similarity of two rows, in thousandths; a row without tokens has
\* similarity 0 to everything.  The norms are in thousandths, so the
\* denominator is divided by 1000 instead of the numerator multiplied by it.
Cosine(u, v) ==
  LET common == DOMAIN u \cap DOMAIN v
      dot == SumOver(common, [t \in common |-> u[t] * v[t]])
      den == Norm(u) * Norm(v)
  IN  IF den = 0 THEN 0 ELSE dot \div (den \div 1000)

\* sims = cosine_similarity(vec_user, vec_known): one value per reference
\* symptom of the condition
RECURSIVE SimsFrom(_, _, _, _)
SimsFrom(vec, vec_user, symptoms, k) ==
  IF k > Len(symptoms) THEN <<>>
  ELSE <<Cosine(vec_user, Transform(vec, symptoms[k]))>>
         \o SimsFrom(vec, vec_user, symptoms, k + 1)

Sims(vec, us, symptoms) == SimsFrom(vec, Transform(vec, us), symptoms, 1)

\* np.max(sims)
RECURSIVE NpMax(_)
NpMax(sims) ==
  IF Len(sims) = 1 THEN sims[1]
  ELSE LET m == NpMax(Tail(sims)) IN IF sims[1] >= m THEN sims[1] ELSE m

\* np.argmax(sims): the first index holding the maximum (1-based here)
RECURSIVE ArgmaxFrom(_, _, _)
ArgmaxFrom(sims, k, best) ==
  IF k > Len(sims) THEN best
  ELSE ArgmaxFrom(sims, k + 1, IF sims[k] > sims[best] THEN k ELSE best)

\* a variant that returns the last index holding the maximum
NpArgmaxLast(sims) ==
  CHOOSE k \in DOMAIN sims :
    /\ \A j \in DOMAIN sims : sims[j] <= sims[k]
    /\ \A j \in DOMAIN sims : j > k => sims[j] < sims[k]

NpArgmax(sims) == ArgmaxFrom(sims, 2, 1)

(***************************************************************************)
(* match_symptoms: one pass of the inner loop body (lines 89-95), and the  *)
(* whole function.                                                         *)
(***************************************************************************)
\* a variant with the comparison turned around
QualifiesBelow(max_sim, t) == max_sim <= t

\* if max_sim >= threshold
Qualifies(max_sim, t) == max_sim >= t

\* a variant with score += 1 outside the if
ScoreAlways(sc, hit) == sc + 1

\* score += 1, inside the if
ScoreAfter(sc, hit) == IF hit THEN sc + 1 ELSE sc

\* matched_symptoms.append(info["symptoms"][np.argmax(sims)]), inside the if
MatchedAfter(ms, hit, symptoms, sims) ==
  IF hit THEN Append(ms, symptoms[NpArgmax(sims)]) ELSE ms

\* the loop body for user symptom us on the running (score, matched_symptoms)
MatchStep(acc, vec, us, symptoms, t) ==
  LET sims == Sims(vec, us, symptoms)
      hit == Qualifies(NpMax(sims), t)
  IN  [score |-> ScoreAfter(acc.score, hit),
       matched |-> MatchedAfter(acc.matched, hit, symptoms, sims)]

RECURSIVE MatchLoop(_, _, _, _, _, _)
MatchLoop(acc, vec, uss, i, symptoms, t) ==
  IF i > Len(uss) THEN acc
  ELSE MatchLoop(MatchStep(acc, vec, uss[i], symptoms, t),
                 vec, uss, i + 1, symptoms, t)

\* matched[disease] = {"score": score, "matched": matched_symptoms}
Entry(d, sc, ms) == [name |-> DISEASE_DB[d].name, score |-> sc, matched |-> ms]

\* the returned dict, as the sequence of its items in insertion order
match_symptoms(uss, t) ==
  LET vec == Fit(uss)
  IN  [d \in 1..Len(DISEASE_DB) |->
         LET r == MatchLoop([score |-> 0, matched |-> <<>>], vec, uss, 1,
                            DISEASE_DB[d].symptoms, t)
         IN  Entry(d, r.score, r.matched)]

(***************************************************************************)
(* The handler's ranking and display.                                      *)
(***************************************************************************)
RECURSIVE Reverse(_)
Reverse(s) == IF Len(s) = 0 THEN <<>> ELSE Reverse(Tail(s)) \o <<Head(s)>>

\* insert x behind every item whose key is not greater: a stable insertion
RECURSIVE InsertAsc(_, _)
InsertAsc(s, x) ==
  IF Len(s) = 0 THEN <<x>>
  ELSE IF x.score < Head(s).score THEN <<x>> \o s
  ELSE <<Head(s)>> \o InsertAsc(Tail(s), x)

\* a stable ascending sort by score
RECURSIVE StableSortAsc(_)
StableSortAsc(items) ==
  IF Len(items) = 0 THEN <<>>
  ELSE InsertAsc(StableSortAsc(SubSeq(items, 1, Len(items) - 1)),
                 items[Len(items)])

\* a variant that sorts ascending and reverses the result, which turns the
\* order of equal scores around
SortedReverseUnstable(items) == Reverse(StableSortAsc(items))

\* sorted(items, key=score, reverse=True): CPython reverses the list, sorts
\* it stably in ascending order and reverses the result
SortedReverse(items) == Reverse(StableSortAsc(Reverse(items)))

\* sorted_results[:3]
TopN == 3

\* colors = ["#fff7ed", "#f0f9ff", "#fef9c3"]
NumColors == 3

Msg(kind, title, body, color) ==
  [kind |-> kind, title |-> title, body |-> body, color |-> color]

\* a variant without the score filter
ShowCardAlways(info) == TRUE

\* for i, (disease, info) in enumerate(sorted_results[:3]):
\*     if info["score"] > 0: ... one card
ShowCard(info) == info.score > 0

RECURSIVE Cards(_, _)
Cards(sr, i) ==
  IF i > Len(sr) \/ i > TopN THEN <<>>
  ELSE (IF ShowCard(sr[i])
          THEN <<Msg("card", sr[i].name, join(sr[i].matched, ", "),
                     (i - 1) % NumColors)>>
          ELSE <<>>) \o Cards(sr, i + 1)

\* lines 188-202
MatchesShown(sr) ==
  IF sr[1].score = 0
    THEN <<Msg("warning", "No strong match found for your symptoms.", "", 0),
           Msg("info", "Monitor your health", "", 0)>>
    ELSE <<Msg("subheader", "Possible Matches:", "", 0)>> \o Cards(sr, 1)

\* lines 180-182
EmergencyShown(em) ==
  IF Len(em) > 0
    THEN <<Msg("error", "EMERGENCY WARNING", join(em, ", "), 0),
           Msg("info", "call emergency services immediately", "", 0)>>
    ELSE <<>>

\* lines 204-225
Footer == <<Msg("divider", "", "", 0), Msg("disclaimer", "", "", 0),
            Msg("credit", "", "", 0)>>

(***************************************************************************)
(* Inputs.                                                                 *)
(***************************************************************************)
SeqsUpTo(S, n) == UNION {[1..k -> S] : k \in 0..n}

\* what the user may type between two commas
RawPieces == {"", " ", "Fever", " Chest Pain ", "pain", "nausea", "bluish"}

RawInputs == {join(p, ",") : p \in SeqsUpTo(RawPieces, MaxSymptoms) \ {<<>>}}

\* normalised symptoms handed to the core directly
CoreSymptoms == {"fever", "chest pain", "pain"}

Thresholds == {0, DefaultThreshold, 800}

(***************************************************************************)
(* The state machine.                                                      *)
(***************************************************************************)
Idle(p) ==
  /\ pc = p
  /\ emergencies = <<>>
  /\ calls = <<>>
  /\ vectorizer = <<>>
  /\ di = 0
  /\ ui = 0
  /\ score = 0
  /\ matched_symptoms = <<>>
  /\ matched = <<>>
  /\ results = <<>>
  /\ sorted_results = <<>>
  /\ rendered = <<>>

\* the page as first drawn: the text area empty, the button not clicked
Init ==
  /\ Idle("idle")
  /\ user_input = ""
  /\ user_symptoms = <<>>
  /\ threshold = DefaultThreshold

\* a variant in which an emergency ends the request
AfterEmergencyGated(em) == IF Len(em) > 0 THEN "done" ELSE "fit"

\* where the handler goes after the emergency check (lines 180-185)
AfterEmergency(em) == "fit"

\* if check_btn: the user has typed raw and clicked (lines 172-176)
ClickCheck(raw) ==
  /\ pc = "idle"
  /\ user_input' = raw
  /\ IF InputRejected(raw)
       THEN /\ rendered' = <<Msg("warning",
                                 "Please enter at least one symptom.", "", 0)>>
            /\ pc' = "done"
            /\ UNCHANGED user_symptoms
       ELSE /\ user_symptoms' = Normalize(raw)
            /\ pc' = "emergency"
            /\ UNCHANGED rendered
  /\ UNCHANGED <<threshold, emergencies, calls, vectorizer, di, ui, score,
                 matched_symptoms, matched, results, sorted_results>>

\* emergencies = detect_emergency(user_symptoms) and its banner (179-182)
EmergencyCheck ==
  /\ pc = "emergency"
  /\ calls' = Append(calls, "detect_emergency")
  /\ \E em \in detect_emergency(user_symptoms) :
       /\ emergencies' = em
       /\ rendered' = rendered \o EmergencyShown(em)
       /\ pc' = AfterEmergency(em)
  /\ UNCHANGED <<user_input, user_symptoms, threshold, vectorizer, di, ui,
                 score, matched_symptoms, matched, results, sorted_results>>

\* match_symptoms is entered: the vectorizer is fitted, the first condition's
\* counters are reset (lines 81-87)
MatchBegin ==
  /\ pc = "fit"
  /\ calls' = Append(calls, "match_symptoms")
  /\ vectorizer' = Fit(user_symptoms)
  /\ matched' = <<>>
  /\ di' = 1
  /\ ui' = 1
  /\ score' = 0
  /\ matched_symptoms' = <<>>
  /\ pc' = "loop"
  /\ UNCHANGED <<user_input, user_symptoms, threshold, emergencies, results,
                 sorted_results, rendered>>

\* one pass of `for us in user_symptoms` (lines 88-95)
MatchSymptom ==
  /\ pc = "loop"
  /\ di <= Len(DISEASE_DB)
  /\ ui <= Len(user_symptoms)
  /\ LET r == MatchStep([score |-> score, matched |-> matched_symptoms],
                        vectorizer, user_symptoms[ui],
                        DISEASE_DB[di].symptoms, threshold)
     IN  /\ score' = r.score
         /\ matched_symptoms' = r.matched
  /\ ui' = ui + 1
  /\ UNCHANGED <<pc, user_input, user_symptoms, threshold, emergencies, calls,
                 vectorizer, di, matched, results, sorted_results, rendered>>

\* the inner loop is over: the condition's entry is stored and the next
\* condition starts (lines 96, 85-87)
MatchDisease ==
  /\ pc = "loop"
  /\ di <= Len(DISEASE_DB)
  /\ ui > Len(user_symptoms)
  /\ matched' = Append(matched, Entry(di, score, matched_symptoms))
  /\ di' = di + 1
  /\ ui' = 1
  /\ score' = 0
  /\ matched_symptoms' = <<>>
  /\ UNCHANGED <<pc, user_input, user_symptoms, threshold, emergencies, calls,
                 vectorizer, results, sorted_results, rendered>>

\* return matched (line 97)
MatchReturn ==
  /\ pc = "loop"
  /\ di > Len(DISEASE_DB)
  /\ results' = matched
  /\ pc' = "sort"
  /\ UNCHANGED <<user_input, user_symptoms, threshold, emergencies, calls,
                 vectorizer, di, ui, score, matched_symptoms, matched,
                 sorted_results, rendered>>

\* sorted_results = sorted(results.items(), ..., reverse=True) (line 186)
SortResults ==
  /\ pc = "sort"
  /\ sorted_results' = SortedReverse(results)
  /\ pc' = "display"
  /\ UNCHANGED <<user_input, user_symptoms, threshold, emergencies, calls,
                 vectorizer, di, ui, score, matched_symptoms, matched, results,
                 rendered>>

\* the fallback or the cards, then the footer (lines 188-225)
Display ==
  /\ pc = "display"
  /\ rendered' = rendered \o MatchesShown(sorted_results) \o Footer
  /\ pc' = "done"
  /\ UNCHANGED <<user_input, user_symptoms, threshold, emergencies, calls,
                 vectorizer, di, ui, score, matched_symptoms, matched, results,
                 sorted_results>>

Next ==
  \/ \E raw \in RawInputs : ClickCheck(raw)
  \/ EmergencyCheck
  \/ MatchBegin
  \/ MatchSymptom
  \/ MatchDisease
  \/ MatchReturn
  \/ SortResults
  \/ Display

\* the "Check Symptoms" handler on any typed input
Spec == Init /\ [][Next]_vars

\* the core called on its own, as lines 179 and 185 call it, with any
\* normalised symptom list and any threshold
InitCore ==
  /\ Idle("emergency")
  /\ user_input = ""
  /\ user_symptoms \in SeqsUpTo(CoreSymptoms, MaxSymptoms)
  /\ threshold \in Thresholds

NextCore ==
  \/ EmergencyCheck
  \/ MatchBegin
  \/ MatchSymptom
  \/ MatchDisease
  \/ MatchReturn
  \/ SortResults

SpecCore == InitCore /\ [][NextCore]_vars

(***************************************************************************)
(* Properties.                                                             *)
(***************************************************************************)
Catalog == 1..Len(DISEASE_DB)

\* detect_emergency has returned
EmergencyDone == Len(calls) >= 1

\* the emergency terms some user symptom contains or is contained in
TriggeredTerms(us) ==
  {e \in Range(EMERGENCY_SYMPTOMS) :
     \E i \in DOMAIN us : Contains(us[i], e) \/ Contains(e, us[i])}

\* C1: detect_emergency returns a duplicate-free list whose members are
\* exactly the emergency terms e for which some user symptom s has e in s or
\* s in e: nothing else is returned and no triggered term is left out.
C1_EmergencyExactAndUnique ==
  EmergencyDone =>
    /\ \A i, j \in DOMAIN emergencies :
         i # j => emergencies[i] # emergencies[j]
    /\ \A k \in DOMAIN emergencies :
         emergencies[k] \in Range(EMERGENCY_SYMPTOMS)
    /\ \A e \in Range(EMERGENCY_SYMPTOMS) :
         e \in Range(emergencies) <=>
           \E s \in Range(user_symptoms) : Contains(s, e) \/ Contains(e, s)

\* two user symptoms triggered the same term, which is returned once
C1_Witness ==
  /\ EmergencyDone
  /\ Len(Found(user_symptoms)) = 2
  /\ emergencies = <<"chest pain">>

\* C2, as claimed: for the user symptoms ["pain"], detect_emergency does not
\* return "chest pain".
C2_FragmentDoesNotTrigger ==
  (EmergencyDone /\ user_symptoms = <<"pain">>) =>
    "chest pain" \notin Range(emergencies)

\* C2, amended: "pain" is a substring of "chest pain", so for ["pain"]
\* detect_emergency returns exactly ["chest pain"], and any list holding
\* "pain" triggers it; a shared word without containment in either direction
\* triggers nothing: ["chest pain"] does not return "pressure in chest".
C2_FragmentTriggers ==
  EmergencyDone =>
    /\ user_symptoms = <<"pain">> => emergencies = <<"chest pain">>
    /\ "pain" \in Range(user_symptoms) => "chest pain" \in Range(emergencies)
    /\ user_symptoms = <<"chest pain">> =>
         "pressure in chest" \notin Range(emergencies)

C2_Witness ==
  /\ EmergencyDone
  /\ user_symptoms = <<"pain">>
  /\ "chest pain" \in Range(emergencies)

\* C3, as claimed: when the normalised symptom list of the raw input is
\* empty, neither core function is invoked and the page shows the validation
\* warning instead.
C3_EmptyListNeverReachesCore ==
  (pc # "idle" /\ Normalize(user_input) = <<>>) =>
    /\ calls = <<>>
    /\ pc = "done" =>
         rendered = <<Msg("warning", "Please enter at least one symptom.",
                          "", 0)>>

\* C4: score = len(matched_symptoms) and 0 <= score <= len(user_symptoms),
\* for every stored entry and at every step of the per-symptom loop, where
\* score is at most the number of user symptoms processed so far.
C4_ScoreIsMatchedCount ==
  /\ pc = "loop" =>
       /\ score = Len(matched_symptoms)
       /\ 0 <= score
       /\ score <= ui - 1
       /\ ui - 1 <= Len(user_symptoms)
  /\ \A d \in DOMAIN matched :
       /\ matched[d].score = Len(matched[d].matched)
       /\ 0 <= matched[d].score
       /\ matched[d].score <= Len(user_symptoms)
  /\ \A d \in DOMAIN results :
       /\ results[d].score = Len(results[d].matched)
       /\ 0 <= results[d].score
       /\ results[d].score <= Len(user_symptoms)

\* both user symptoms have been processed and only one of them qualified
C4_Witness ==
  /\ pc = "loop"
  /\ ui = 3
  /\ score = 1
  /\ threshold = DefaultThreshold

CatalogIndex(name) == CHOOSE d \in Catalog : DISEASE_DB[d].name = name

\* C5: sorted_results holds the entries of results sorted by score
\* descending, and entries of equal score keep their DISEASE_DB order.
C5_RankedDescendingStable ==
  (pc \in {"display", "done"} /\ Len(calls) = 2) =>
    /\ Len(sorted_results) = Len(results)
    /\ \A d \in DOMAIN results :
         \E i \in DOMAIN sorted_results : sorted_results[i] = results[d]
    /\ \A i, j \in DOMAIN sorted_results :
         i < j =>
           /\ sorted_results[i].score >= sorted_results[j].score
           /\ sorted_results[i].score = sorted_results[j].score =>
                CatalogIndex(sorted_results[i].name)
                  < CatalogIndex(sorted_results[j].name)

\* the sort moved a condition forward and left a tie in catalog order
C5_Witness ==
  /\ pc = "display"
  /\ results[1].score = 0
  /\ sorted_results[1].score = 1
  /\ sorted_results[2].score = 1
  /\ sorted_results[3].score = 0

\* C6: for the same symptoms, a condition's score under a higher threshold
\* is never greater than its score under a lower one.
C6_ThresholdMonotone ==
  pc = "sort" =>
    \A t \in Thresholds :
      LET other == match_symptoms(user_symptoms, t)
      IN  \A d \in Catalog :
            /\ t >= threshold => other[d].score <= results[d].score
            /\ t <= threshold => other[d].score >= results[d].score

\* a run at the default threshold in which raising the threshold to 0.8
\* loses a match
C6_Witness ==
  /\ pc = "sort"
  /\ threshold = DefaultThreshold
  /\ \E d \in Catalog :
       match_symptoms(user_symptoms, 800)[d].score < results[d].score

\* C7: the set of emergency flags of a run is a function of the user
\* symptoms and EMERGENCY_SYMPTOMS alone: whatever the threshold, wherever
\* the matcher is and whatever it matched, the flags are TriggeredTerms of
\* the user symptoms.
C7_EmergencyIndependent ==
  EmergencyDone => Range(emergencies) = TriggeredTerms(user_symptoms)

\* flags are raised in a run with a raised threshold in which no condition
\* matched
C7_Witness ==
  /\ pc = "sort"
  /\ threshold = 800
  /\ Len(emergencies) = 1
  /\ \A d \in Catalog : results[d].score = 0

\* C8: a request that passes validation runs detect_emergency and then
\* match_symptoms, whether or not an emergency was flagged, and the matcher's
\* result is what match_symptoms gives for the user symptoms alone.
C8_BothPassesRun ==
  /\ Len(calls) >= 1 => calls[1] = "detect_emergency"
  /\ Len(calls) >= 2 => calls[2] = "match_symptoms"
  /\ (pc = "done" /\ ~InputRejected(user_input)) =>
       /\ calls = <<"detect_emergency", "match_symptoms">>
       /\ results = match_symptoms(user_symptoms, DefaultThreshold)

\* a finished request with an emergency flagged and a condition matched
C8_Witness ==
  /\ pc = "done"
  /\ Len(emergencies) > 0
  /\ \E d \in Catalog : results[d].score > 0

IsCard(m) == m.kind = "card"

IsPositive(info) == info.score > 0

NoMatchShown ==
  \E i \in DOMAIN rendered :
    rendered[i].title = "No strong match found for your symptoms."

\* C9: if every condition scores 0 the page shows the "no match" fallback
\* and no card; otherwise it shows, in ranked order, exactly the conditions
\* among the first 3 of the ranked list that have score > 0: at least one
\* and at most 3.
C9_DisplaySelection ==
  (pc = "done" /\ Len(calls) = 2) =>
    LET cards == SelectSeq(rendered, IsCard)
        top == SelectSeq(SubSeq(sorted_results, 1, 3), IsPositive)
    IN  IF \A d \in DOMAIN results : results[d].score = 0
          THEN cards = <<>> /\ NoMatchShown
          ELSE /\ ~NoMatchShown
               /\ Len(cards) >= 1
               /\ Len(cards) <= 3
               /\ Len(cards) = Len(top)
               /\ \A i \in DOMAIN cards :
                    /\ cards[i].title = top[i].name
                    /\ cards[i].body = join(top[i].matched, ", ")

\* fewer than 3 conditions matched: the third ranked entry has score 0 and
\* gets no card
C9_Witness ==
  /\ pc = "done"
  /\ Len(calls) = 2
  /\ sorted_results[2].score > 0
  /\ sorted_results[3].score = 0
  /\ Len(SelectSeq(rendered, IsCard)) = 2

\* the first reference symptom of condition d with the greatest similarity
\* to user symptom s, and whether that similarity reaches the threshold
Best(d, s) ==
  LET sims == Sims(vectorizer, s, DISEASE_DB[d].symptoms)
      first == CHOOSE k \in DOMAIN sims :
                 /\ \A j \in DOMAIN sims : sims[j] <= sims[k]
                 /\ \A j \in DOMAIN sims : j < k => sims[j] < sims[k]
  IN  [hit |-> sims[first] >= threshold, ref |-> DISEASE_DB[d].symptoms[first]]

\* what condition d has matched after the first n user symptoms
RECURSIVE Expected(_, _)
Expected(d, n) ==
  IF n = 0 THEN <<>>
  ELSE LET b == Best(d, user_symptoms[n])
       IN  Expected(d, n - 1) \o (IF b.hit THEN <<b.ref>> ELSE <<>>)

\* C10: for each condition, the user symptoms are processed in input order;
\* one whose greatest similarity reaches the threshold appends the
\* condition's own reference symptom at the first index of that maximum,
\* repeats kept, and one below the threshold appends nothing.  Stated of the
\* running list at every step of the loop, of each entry when it is stored
\* and of every entry of the returned dict.
C10_MatchedIsFirstBest ==
  /\ (pc = "loop" /\ di <= Len(DISEASE_DB)) =>
       matched_symptoms = Expected(di, ui - 1)
  /\ (pc = "loop" /\ ui = 1 /\ Len(matched) >= 1) =>
       matched[Len(matched)].matched
         = Expected(Len(matched), Len(user_symptoms))
  /\ pc = "sort" =>
       \A d \in DOMAIN results :
         /\ results[d].matched = Expected(d, Len(user_symptoms))
         /\ \A k \in DOMAIN results[d].matched :
              results[d].matched[k] \in Range(DISEASE_DB[d].symptoms)

\* "chest pain" stays below the threshold and appends nothing; "pain" ties
\* on four reference symptoms of "Muscle or Body Pain" and appends the first
C10_Witness ==
  /\ pc = "loop"
  /\ di = 6
  /\ ui = 3
  /\ user_symptoms = <<"chest pain", "pain">>
  /\ threshold = DefaultThreshold
  /\ matched_symptoms = <<"muscle pain">>

====
